---- MODULE Spec2Model ----
(***************************************************************************)
(* A model of the lax core of ndarray-linalg: dense LU (lu, inv, solve),   *)
(* SVD (svd) and the tridiagonal component (Tridiagonal indexing,          *)
(* opnorm_one, lu_tridiagonal, rcond_tridiagonal, solve_tridiagonal).      *)
(*                                                                         *)
(* The LAPACK routines are external: each native call is a nondeterministic*)
(* response (status code, contents written to the output buffers) drawn    *)
(* from small sets.  Every entry point is one action; what it did, in      *)
(* program order, is kept in the event log of the call record.             *)
(*                                                                         *)
(* Vec<T> and slices are sequences; Rust's 0-based v[i] is At(v, i).       *)
(***************************************************************************)
EXTENDS Integers, Sequences, FiniteSets, TLC

VARIABLES
    build,  \* "debug" | "release": whether i32 overflow panics or wraps
    tri,    \* the Tridiagonal the caller indexes into
    lu,     \* the LUFactorizedTridiagonal the caller holds, or NoLU
    pre,    \* history: the bands handed to the lu_tridiagonal call that made lu
    call    \* the invocation in flight: NoCall, or its record once it has run

vars == <<build, tri, lu, pre, call>>

(***************************************************************************)
(* Bounds of the model.                                                    *)
(***************************************************************************)
MaxDim == 2      \* rows and cols of a dense layout range over 0..MaxDim
MaxN == 3        \* order of a tridiagonal matrix ranges over 0..MaxN
MaxRhs == 2      \* number of right-hand sides of solve_tridiagonal
MaxWork == 2     \* largest workspace size a size query reports

Min2(x, y) == IF x < y THEN x ELSE y
Max2(x, y) == IF x < y THEN y ELSE x
Abs(x) == IF x < 0 THEN -x ELSE x

At(v, i) == v[i + 1]
Fill(n, x) == [i \in 1..n |-> x]

NoLU == [valid |-> FALSE]

(***************************************************************************)
(* MatrixLayout: C { row, lda } | F { col, lda }.  The field cnt is `row`  *)
(* of the C variant and `col` of the F variant.                            *)
(***************************************************************************)
LayoutC(row, lda) == [tag |-> "C", cnt |-> row, lda |-> lda]
LayoutF(col, lda) == [tag |-> "F", cnt |-> col, lda |-> lda]

\* MatrixLayout::size: (rows, cols)
size(l) == IF l.tag = "C" THEN <<l.cnt, l.lda>> ELSE <<l.lda, l.cnt>>
\* MatrixLayout::lda: the leading dimension
lda(l) == l.lda
\* MatrixLayout::len: the number of leading-dimension-long vectors
len(l) == l.cnt

\* The layout of a rows x cols matrix in the given storage order.
LayoutOf(tag, rows, cols) ==
    IF tag = "C" THEN LayoutC(rows, cols) ELSE LayoutF(cols, rows)

Layouts == { LayoutOf(tag, r, c) : tag \in {"C", "F"}, r \in 0..MaxDim, c \in 0..MaxDim }

(***************************************************************************)
(* Results and the status mapping.                                         *)
(***************************************************************************)
Ok(v) == [ok |-> TRUE, err |-> "none", code |-> 0, val |-> v]
Err(kind, code) == [ok |-> FALSE, err |-> kind, code |-> code, val |-> <<>>]
\* A panic (assert!, unwrap on None, index out of bounds, capacity overflow).
Panic(what) == [ok |-> FALSE, err |-> "panic", code |-> 0, val |-> what]

\* i32::as_lapack_result
as_lapack_result(info) ==
    IF info > 0 THEN Err("LapackComputationalFailure", info)
    ELSE IF info < 0 THEN Err("LapackInvalidValue", info)
    ELSE Ok(<<>>)

\* Status codes a native routine may report.
NativeInfos == {-1, 0, 1}

(***************************************************************************)
(* The event log of an invocation: native calls, this layer's own writes   *)
(* to a caller buffer, allocations, status checks and the return.          *)
(***************************************************************************)
EvNative(what, arg, info) == [ev |-> "native", what |-> what, arg |-> arg, info |-> info]
EvWrite(what) == [ev |-> "write", what |-> what, arg |-> 0, info |-> 0]
EvAlloc(what, n) == [ev |-> "alloc", what |-> what, arg |-> n, info |-> 0]
EvCheck(info) == [ev |-> "check", what |-> "info", arg |-> 0, info |-> info]
EvNorm(x) == [ev |-> "norm", what |-> "opnorm_one", arg |-> x, info |-> 0]
EvReturn(r) == [ev |-> "return", what |-> r.err, arg |-> 0, info |-> r.code]

(***************************************************************************)
(* Scalars of the dense component: complex numbers <<re, im>>.             *)
(***************************************************************************)
conj(z) == <<z[1], -z[2]>>
ConjAll(b) == [i \in 1..Len(b) |-> conj(b[i])]

\* Contents a caller hands in, and contents a native routine writes.
CIn(n) == { [i \in 1..n |-> <<i, 1>>], [i \in 1..n |-> <<1, -i>>] }
COut(n) == { [i \in 1..n |-> <<7, i>>], [i \in 1..n |-> <<7, 0>>] }

\* num_traits::ToPrimitive::to_usize of a complex scalar: the real part when the
\* imaginary part is zero and the real part is not negative, otherwise None (-1).
to_usize(z) == IF z[2] = 0 /\ z[1] >= 0 THEN z[1] ELSE -1

(***************************************************************************)
(* The record of an invocation: its arguments, what the native routine saw *)
(* (ntrans, nb, nju, njvt, nanorm, nldb, nnrhs) and left behind (nout, and *)
(* slot, the work_size[0] a size query leaves), the                        *)
(* caller's buffers afterwards (a, b), the Tridiagonal handed in (self0),  *)
(* the events in program order and the value returned.                     *)
(***************************************************************************)
NoCall ==
    [fn |-> "none", l |-> LayoutF(0, 0), t |-> "No", calc_u |-> FALSE, calc_vt |-> FALSE,
     a_in |-> <<>>, a |-> <<>>, b_in |-> <<>>, b |-> <<>>,
     self0 |-> [valid |-> FALSE],
     ntrans |-> "none", nb |-> <<>>, nout |-> <<>>, nju |-> "none", njvt |-> "none",
     nanorm |-> 0, nldb |-> 0, nnrhs |-> 0, oracle |-> 0, slot |-> <<0, 0>>,
     row |-> 0, col |-> 0, place |-> [band |-> "none", i |-> 0], v |-> 0, log |-> <<>>, result |-> Ok(<<>>)]

\* What LAPACK leaves in an in/out buffer: untouched when it rejects an argument
\* on entry (info < 0), otherwise the contents it computed.
NativeWrites(buf, info, out) == IF info < 0 THEN buf ELSE out

Transposes == {"No", "Transpose", "Hermite"}

(***************************************************************************)
(* Solve_::lu                                                              *)
(***************************************************************************)
lu_(l, a, info, a_out) ==
    LET row == size(l)[1]
        col == size(l)[2]
        k == Min2(row, col)
        base == [NoCall EXCEPT !.fn = "lu", !.l = l, !.a_in = a, !.a = a]
    IN  IF Len(a) # row * col
        THEN [base EXCEPT !.result = Panic("assert_eq")]
        ELSE IF row = 0 \/ col = 0
        THEN [base EXCEPT !.result = Ok(<<>>), !.log = <<EvReturn(Ok(<<>>))>>]
        ELSE LET r == IF info = 0 THEN Ok([i \in 1..k |-> i]) ELSE as_lapack_result(info)
             IN  [base EXCEPT
                    !.a = NativeWrites(a, info, a_out),
                    !.log = <<EvAlloc("ipiv", k), EvNative("getrf", 0, info),
                              EvCheck(info), EvReturn(r)>>,
                    !.result = r]

\* inv going on to the real call without checking the status of the size query.
inv_NoQueryCheck(l, a, info1, slot, info2, a_out) ==
    LET n == size(l)[1]
        base == [NoCall EXCEPT !.fn = "inv", !.l = l, !.a_in = a, !.a = a]
        lwork == to_usize(slot)
    IN  IF n = 0
        THEN [base EXCEPT !.result = Ok(<<>>), !.log = <<EvReturn(Ok(<<>>))>>]
        ELSE [base EXCEPT
                !.a = NativeWrites(a, info2, a_out),
                !.slot = slot,
                !.log = <<EvAlloc("work_size", 1), EvNative("getri", -1, info1),
                          EvAlloc("work", lwork),
                          EvNative("getri", lwork, info2), EvCheck(info2),
                          EvReturn(as_lapack_result(info2))>>,
                !.result = as_lapack_result(info2)]

\* inv telling getri that its workspace is one element longer than it is.
inv_LworkOffByOne(l, a, info1, slot, info2, a_out) ==
    LET n == size(l)[1]
        base == [NoCall EXCEPT !.fn = "inv", !.l = l, !.a_in = a, !.a = a]
        q == <<EvAlloc("work_size", 1), EvNative("getri", -1, info1), EvCheck(info1)>>
        lwork == to_usize(slot)
    IN  IF n = 0
        THEN [base EXCEPT !.result = Ok(<<>>), !.log = <<EvReturn(Ok(<<>>))>>]
        ELSE IF info1 # 0
        THEN [base EXCEPT !.result = as_lapack_result(info1),
                          !.log = q \o <<EvReturn(as_lapack_result(info1))>>]
        ELSE IF lwork < 0
        THEN [base EXCEPT !.slot = slot, !.result = Panic("unwrap"), !.log = q]
        ELSE [base EXCEPT
                !.slot = slot,
                !.a = NativeWrites(a, info2, a_out),
                !.log = q \o <<EvAlloc("work", lwork), EvNative("getri", lwork + 1, info2),
                               EvCheck(info2),
                               EvReturn(as_lapack_result(info2))>>,
                !.result = as_lapack_result(info2)]

(***************************************************************************)
(* Solve_::inv.  slot is what the size query leaves in work_size[0].       *)
(***************************************************************************)
inv(l, a, info1, slot, info2, a_out) ==
    LET n == size(l)[1]
        base == [NoCall EXCEPT !.fn = "inv", !.l = l, !.a_in = a, !.a = a]
        q == <<EvAlloc("work_size", 1), EvNative("getri", -1, info1), EvCheck(info1)>>
        lwork == to_usize(slot)
    IN  IF n = 0
        THEN [base EXCEPT !.result = Ok(<<>>), !.log = <<EvReturn(Ok(<<>>))>>]
        ELSE IF info1 # 0
        THEN [base EXCEPT !.result = as_lapack_result(info1),
                          !.log = q \o <<EvReturn(as_lapack_result(info1))>>]
        ELSE IF lwork < 0
        THEN [base EXCEPT !.slot = slot, !.result = Panic("unwrap"), !.log = q]
        ELSE [base EXCEPT
                !.slot = slot,
                !.a = NativeWrites(a, info2, a_out),
                !.log = q \o <<EvAlloc("work", lwork), EvNative("getri", lwork, info2),
                               EvCheck(info2),
                               EvReturn(as_lapack_result(info2))>>,
                !.result = as_lapack_result(info2)]

(***************************************************************************)
(* Solve_::solve                                                           *)
(***************************************************************************)
\* SolveTranspose with the Hermite arm of the C layout forgetting to conjugate.
SolveTranspose_NoConj(l, t) ==
    IF l.tag = "C"
    THEN CASE t = "No" -> <<"Transpose", FALSE>>
           [] t = "Transpose" -> <<"No", FALSE>>
           [] t = "Hermite" -> <<"No", FALSE>>
    ELSE <<t, FALSE>>

\* The match on (layout, t): the mode handed to getrs and whether to conjugate.
SolveTranspose(l, t) ==
    IF l.tag = "C"
    THEN CASE t = "No" -> <<"Transpose", FALSE>>
           [] t = "Transpose" -> <<"No", FALSE>>
           [] t = "Hermite" -> <<"No", TRUE>>
    ELSE <<t, FALSE>>

solve(l, t, a, b, info, b_out) ==
    LET tc == SolveTranspose(l, t)
        cj == tc[2]
        b1 == IF cj THEN ConjAll(b) ELSE b
        b2 == NativeWrites(b1, info, b_out)
        b3 == IF cj THEN ConjAll(b2) ELSE b2
        \* the loop over b writes nothing when b is empty
        cev == IF cj /\ Len(b) > 0 THEN <<EvWrite("conj_b")>> ELSE <<>>
        r == as_lapack_result(info)
    IN  [NoCall EXCEPT
            !.fn = "solve", !.l = l, !.t = t, !.a_in = a, !.a = a, !.b_in = b,
            !.ntrans = tc[1], !.nb = b1, !.nout = b2, !.b = b3,
            !.log = cev \o <<EvNative("getrs", 0, info)>> \o cev
                        \o <<EvCheck(info), EvReturn(r)>>,
            !.result = r]

(***************************************************************************)
(* SVD_::svd (the complex instantiation, which has rwork)                  *)
(***************************************************************************)
None == [some |-> FALSE, v |-> <<>>]
Some(v) == [some |-> TRUE, v |-> v]

\* JobSvd::from_bool
from_bool(calc) == IF calc THEN "All" ELSE "None"

\* SvdJobs without the swap for the C layout.
SvdJobs_NoSwap(l, calc_u, calc_vt) == <<from_bool(calc_u), from_bool(calc_vt)>>

\* The two matches on the layout that pick ju and jvt.
SvdJobs(l, calc_u, calc_vt) ==
    IF l.tag = "F"
    THEN <<from_bool(calc_u), from_bool(calc_vt)>>
    ELSE <<from_bool(calc_vt), from_bool(calc_u)>>

\* The final match on the layout: which buffer is returned as u and which as vt.
SvdOutput(l, s, u, vt) ==
    IF l.tag = "F"
    THEN [s |-> s, u |-> u, vt |-> vt]
    ELSE [s |-> s, u |-> vt, vt |-> u]

\* gesvd marks what it writes: its U argument with 8, its VT argument with 9.
svd(l, calc_u, calc_vt, a, info1, slot, info2, a_out) ==
    LET j == SvdJobs(l, calc_u, calc_vt)
        ju == j[1]
        jvt == j[2]
        m == lda(l)
        n == len(l)
        k == Min2(m, n)
        ualloc == IF ju = "All" THEN <<EvAlloc("u", m * m)>> ELSE <<>>
        vtalloc == IF jvt = "All" THEN <<EvAlloc("vt", n * n)>> ELSE <<>>
        u == IF ju = "All" THEN Some(Fill(m * m, <<8, 0>>)) ELSE None
        vt == IF jvt = "All" THEN Some(Fill(n * n, <<9, 0>>)) ELSE None
        s == Fill(k, 1)
        base == [NoCall EXCEPT !.fn = "svd", !.l = l, !.calc_u = calc_u,
                               !.calc_vt = calc_vt, !.a_in = a, !.a = a,
                               !.nju = ju, !.njvt = jvt]
        q == ualloc \o vtalloc \o <<EvAlloc("s", k), EvAlloc("rwork", 5 * k),
                                    EvAlloc("work_size", 1),
                                    EvNative("gesvd", -1, info1), EvCheck(info1)>>
        lwork == to_usize(slot)
        r == IF info2 = 0 THEN Ok(SvdOutput(l, s, u, vt)) ELSE as_lapack_result(info2)
    IN  IF info1 # 0
        THEN [base EXCEPT !.result = as_lapack_result(info1),
                          !.log = q \o <<EvReturn(as_lapack_result(info1))>>]
        ELSE IF lwork < 0
        THEN [base EXCEPT !.slot = slot, !.result = Panic("unwrap"), !.log = q]
        ELSE [base EXCEPT
                !.slot = slot,
                !.a = NativeWrites(a, info2, a_out),
                !.log = q \o <<EvAlloc("work", lwork), EvNative("gesvd", lwork, info2),
                               EvCheck(info2), EvReturn(r)>>,
                !.result = r]

(***************************************************************************)
(* Tridiagonal: [l, dl, d, du], scalars are integers (a real instantiation)*)
(***************************************************************************)
RECURSIVE MaxOf(_, _, _)
\* The second loop of opnorm_one: `if max < val { max = val }` from index i on.
MaxOf(col_sum, i, max) ==
    IF i >= Len(col_sum) THEN max
    ELSE MaxOf(col_sum, i + 1, IF max < At(col_sum, i) THEN At(col_sum, i) ELSE max)

\* opnorm_one whose sub-diagonal test is off by one.
opnorm_one_OffByOne(self) ==
    LET col_sum == [k \in 1..Len(self.d) |->
            LET i == k - 1 IN
            Abs(At(self.d, i))
            + (IF i + 1 < Len(self.dl) THEN Abs(At(self.dl, i)) ELSE 0)
            + (IF i > 0 THEN Abs(At(self.du, i - 1)) ELSE 0)]
    IN  MaxOf(col_sum, 0, 0)

\* Tridiagonal::opnorm_one
opnorm_one(self) ==
    LET col_sum == [k \in 1..Len(self.d) |->
            LET i == k - 1 IN
            Abs(At(self.d, i))
            + (IF i < Len(self.dl) THEN Abs(At(self.dl, i)) ELSE 0)
            + (IF i > 0 THEN Abs(At(self.du, i - 1)) ELSE 0)]
    IN  MaxOf(col_sum, 0, 0)

\* What gttrf leaves in the three bands: untouched when it rejects an argument,
\* otherwise every entry overwritten with the factor value f.
Factored(a, info, f) ==
    IF info < 0 THEN a
    ELSE [a EXCEPT !.dl = Fill(Len(a.dl), f), !.d = Fill(Len(a.d), f),
                   !.du = Fill(Len(a.du), f)]

\* lu_tridiagonal taking the norm after gttrf has run.
lu_tridiagonal_NormAfter(a, info, f) ==
    LET n == size(a.l)[1]
        base == [NoCall EXCEPT !.fn = "lu_tridiagonal", !.l = a.l, !.self0 = a]
        a2 == Factored(a, info, f)
        a_opnorm_one == opnorm_one(a2)
        r == as_lapack_result(info)
        evs == <<EvAlloc("du2", n - 2), EvAlloc("ipiv", n),
                 EvNative("gttrf", 0, info), EvNorm(a_opnorm_one), EvCheck(info)>>
        out == [valid |-> TRUE, a |-> a2, du2 |-> Fill(n - 2, f),
                ipiv |-> [i \in 1..n |-> i], a_opnorm_one |-> a_opnorm_one]
    IN  IF n - 2 < 0
        THEN <<[base EXCEPT !.result = Panic("capacity overflow"),
                            !.log = <<EvAlloc("du2", n - 2)>>], NoLU>>
        ELSE IF info # 0
        THEN <<[base EXCEPT !.result = r, !.log = evs \o <<EvReturn(r)>>], NoLU>>
        ELSE <<[base EXCEPT !.result = Ok(<<>>), !.log = evs \o <<EvReturn(Ok(<<>>))>>], out>>

\* Tridiagonal_::lu_tridiagonal.  Returns <<call record, factorization or NoLU>>.
\* An alloc event carries the count as the i32 expression computes it: a
\* negative n - 2 becomes a count near 2^64 under `as usize`, which no
\* allocation can satisfy.
lu_tridiagonal(a, info, f) ==
    LET n == size(a.l)[1]
        base == [NoCall EXCEPT !.fn = "lu_tridiagonal", !.l = a.l, !.self0 = a]
        a_opnorm_one == opnorm_one(a)
        a2 == Factored(a, info, f)
        r == as_lapack_result(info)
        evs == <<EvAlloc("du2", n - 2), EvAlloc("ipiv", n), EvNorm(a_opnorm_one),
                 EvNative("gttrf", 0, info), EvCheck(info)>>
        out == [valid |-> TRUE, a |-> a2, du2 |-> Fill(n - 2, f),
                ipiv |-> [i \in 1..n |-> i], a_opnorm_one |-> a_opnorm_one]
    IN  IF n - 2 < 0
        THEN <<[base EXCEPT !.result = Panic("capacity overflow"),
                            !.log = <<EvAlloc("du2", n - 2)>>], NoLU>>
        ELSE IF info # 0
        THEN <<[base EXCEPT !.result = r, !.log = evs \o <<EvReturn(r)>>], NoLU>>
        ELSE <<[base EXCEPT !.result = Ok(<<>>), !.log = evs \o <<EvReturn(Ok(<<>>))>>], out>>

\* Tridiagonal_::rcond_tridiagonal (a real instantiation, which has iwork)
rcond_tridiagonal(f, info, rcond) ==
    LET n == size(f.a.l)[1]
        r == IF info = 0 THEN Ok(rcond) ELSE as_lapack_result(info)
    IN  [NoCall EXCEPT
            !.fn = "rcond_tridiagonal", !.l = f.a.l, !.nanorm = f.a_opnorm_one,
            !.log = <<EvAlloc("work", 2 * n), EvAlloc("iwork", n),
                      EvNative("gtcon", 0, info), EvCheck(info), EvReturn(r)>>,
            !.result = r]

\* layout::transpose: the same matrix in the other storage order, in a new buffer.
transpose(layout, input) ==
    LET m == size(layout)[1]
        n == size(layout)[2]
        transposed == IF layout.tag = "C" THEN LayoutF(n, m) ELSE LayoutC(m, n)
        out == [k \in 1..(m * n) |->
                  LET q == k - 1 IN
                  IF layout.tag = "C"
                  THEN At(input, (q % m) * n + (q \div m))
                  ELSE At(input, (q % n) * m + (q \div n))]
    IN  <<transposed, out>>

\* layout::transpose_over: `from`, stored as `layout` says, written into `to` in
\* the other storage order.
transpose_over(layout, from, to) ==
    LET m == size(layout)[1]
        n == size(layout)[2]
    IN  [k \in 1..Len(to) |->
           LET q == k - 1 IN
           IF layout.tag = "C"
           THEN At(from, (q % m) * n + (q \div m))
           ELSE At(from, (q % n) * m + (q \div n))]

\* gttrs reads 'T' and 'C' alike for real scalars.
TransCode(t) == IF t = "No" THEN 0 ELSE 100

\* What gttrs leaves in the column-major n x nrhs right-hand side buf with
\* leading dimension ldb: a function of everything it is handed, one per
\* oracle k, that mixes the rows of each column.
GttrsOut(k, f, t, n, nrhs, buf, ldb) ==
    [p \in 1..Len(buf) |->
       LET q == p - 1
           i == q % ldb
           j == q \div ldb
       IN  IF i < n /\ j < nrhs
           THEN k * At(buf, j * ldb + (n - 1 - i)) + At(f.a.d, i) + TransCode(t)
           ELSE buf[p]]

\* solve_tridiagonal copying the scratch buffer back without transposing it.
solve_tridiagonal_NoTransposeBack(f, b_layout, t, b, info, k) ==
    LET n == size(f.a.l)[1]
        isC == b_layout.tag = "C"
        tr == transpose(b_layout, b)
        b_layout2 == IF isC THEN tr[1] ELSE b_layout
        ldb == size(b_layout2)[1]
        nrhs == size(b_layout2)[2]
        seen == IF isC THEN tr[2] ELSE b
        after == NativeWrites(seen, info, GttrsOut(k, f, t, n, nrhs, seen, ldb))
        r == as_lapack_result(info)
        base == [NoCall EXCEPT
                    !.fn = "solve_tridiagonal", !.l = b_layout, !.t = t, !.b_in = b,
                    !.ntrans = t, !.nb = seen, !.nout = after, !.nldb = ldb,
                    !.nnrhs = nrhs, !.oracle = k]
        evs == (IF isC THEN <<EvAlloc("b_t", Len(seen))>> ELSE <<>>)
               \o <<EvNative("gttrs", 0, info), EvCheck(info)>>
    IN  IF info # 0
        THEN [base EXCEPT !.b = IF isC THEN b ELSE after,
                          !.log = evs \o <<EvReturn(r)>>, !.result = r]
        ELSE IF isC
        THEN [base EXCEPT !.b = after,
                          !.log = evs \o <<EvWrite("transpose_over"), EvReturn(r)>>,
                          !.result = r]
        ELSE [base EXCEPT !.b = after, !.log = evs \o <<EvReturn(r)>>, !.result = r]

\* Tridiagonal_::solve_tridiagonal
solve_tridiagonal(f, b_layout, t, b, info, k) ==
    LET n == size(f.a.l)[1]
        isC == b_layout.tag = "C"
        tr == transpose(b_layout, b)
        b_layout2 == IF isC THEN tr[1] ELSE b_layout
        ldb == size(b_layout2)[1]
        nrhs == size(b_layout2)[2]
        seen == IF isC THEN tr[2] ELSE b
        after == NativeWrites(seen, info, GttrsOut(k, f, t, n, nrhs, seen, ldb))
        r == as_lapack_result(info)
        base == [NoCall EXCEPT
                    !.fn = "solve_tridiagonal", !.l = b_layout, !.t = t, !.b_in = b,
                    !.ntrans = t, !.nb = seen, !.nout = after, !.nldb = ldb, !.nnrhs = nrhs,
                    !.oracle = k]
        evs == (IF isC THEN <<EvAlloc("b_t", Len(seen))>> ELSE <<>>)
               \o <<EvNative("gttrs", 0, info), EvCheck(info)>>
    IN  IF info # 0
        THEN [base EXCEPT !.b = IF isC THEN b ELSE after,
                          !.log = evs \o <<EvReturn(r)>>, !.result = r]
        ELSE IF isC
        THEN [base EXCEPT !.b = transpose_over(b_layout2, after, b),
                          !.log = evs \o <<EvWrite("transpose_over"), EvReturn(r)>>,
                          !.result = r]
        ELSE [base EXCEPT !.b = after, !.log = evs \o <<EvReturn(r)>>, !.result = r]

(***************************************************************************)
(* Index<(i32, i32)> and IndexMut<(i32, i32)> for Tridiagonal              *)
(***************************************************************************)
MaxI32 == 2147483647
MinI32 == -MaxI32 - 1

\* row - col in i32.  <<overflowed, the wrapped difference>>
Sub32(a, b) ==
    IF b >= 0 /\ a < MinI32 + b
    THEN <<TRUE, (a - MinI32) + (MaxI32 - b) + 1>>
    ELSE IF b < 0 /\ a > MaxI32 + b
    THEN <<TRUE, (a - MaxI32) + (MinI32 - b) - 1>>
    ELSE <<FALSE, a - b>>

NoPlace == [band |-> "panic", i |-> 0]
\* v[i as usize] of a Vec: a negative i32 becomes a usize above any Vec's length.
Place(band, v, i) == IF i >= 0 /\ i < Len(v) THEN [band |-> band, i |-> i] ELSE NoPlace

\* index whose sub-diagonal arm indexes dl by row.
index_DlByRow(self, row, col, bld) ==
    LET n == size(self.l)[1]
        df == Sub32(row, col)
    IN  IF ~(Max2(row, col) < n) THEN NoPlace
        ELSE IF df[1] /\ bld = "debug" THEN NoPlace
        ELSE CASE df[2] = 0 -> Place("d", self.d, row)
               [] df[2] = 1 -> Place("dl", self.dl, row)
               [] df[2] = -1 -> Place("du", self.du, row)
               [] OTHER -> NoPlace

\* The body shared by index and index_mut: the element (row, col) addresses,
\* or NoPlace when the access panics.  bld is the build profile.
index(self, row, col, bld) ==
    LET n == size(self.l)[1]
        df == Sub32(row, col)
    IN  IF ~(Max2(row, col) < n) THEN NoPlace
        ELSE IF df[1] /\ bld = "debug" THEN NoPlace
        ELSE CASE df[2] = 0 -> Place("d", self.d, row)
               [] df[2] = 1 -> Place("dl", self.dl, col)
               [] df[2] = -1 -> Place("du", self.du, row)
               [] OTHER -> NoPlace

\* Reading through the reference index returns.
Deref(self, p) ==
    CASE p.band = "d" -> At(self.d, p.i)
      [] p.band = "dl" -> At(self.dl, p.i)
      [] p.band = "du" -> At(self.du, p.i)

\* Assigning through the reference index_mut returns.
Assign(self, p, v) ==
    CASE p.band = "d" -> [self EXCEPT !.d[p.i + 1] = v]
      [] p.band = "dl" -> [self EXCEPT !.dl[p.i + 1] = v]
      [] p.band = "du" -> [self EXCEPT !.du[p.i + 1] = v]

\* Buffers a caller may hand in with layout l: of the length the layout asks
\* for, or one element longer.
ABuffers(l) == { Fill(n, <<1, 1>>) : n \in {l.cnt * l.lda, l.cnt * l.lda + 1} }
WorkSlots == { <<w, 0>> : w \in 1..MaxWork }

Lu ==
    /\ call = NoCall
    /\ \E l \in Layouts : \E a \in ABuffers(l) : \E info \in NativeInfos :
         call' = lu_(l, a, info, Fill(Len(a), <<7, 0>>))
    /\ UNCHANGED <<build, tri, lu, pre>>

Inv ==
    /\ call = NoCall
    /\ \E l \in Layouts : \E a \in ABuffers(l) :
       \E info1 \in NativeInfos, info2 \in NativeInfos, slot \in WorkSlots :
         call' = inv(l, a, info1, slot, info2, Fill(Len(a), <<7, 0>>))
    /\ UNCHANGED <<build, tri, lu, pre>>

Solve ==
    /\ call = NoCall
    /\ \E l \in Layouts : \E t \in Transposes : \E a \in ABuffers(l) :
       \E b \in CIn(size(l)[1]) : \E info \in NativeInfos : \E b_out \in COut(Len(b)) :
         call' = solve(l, t, a, b, info, b_out)
    /\ UNCHANGED <<build, tri, lu, pre>>

\* The call returns to the caller, who may then make the next one.
Return ==
    /\ call # NoCall
    /\ call' = NoCall
    /\ UNCHANGED <<build, tri, lu, pre>>

Svd ==
    /\ call = NoCall
    /\ \E l \in Layouts : \E a \in ABuffers(l) : \E calc_u \in BOOLEAN, calc_vt \in BOOLEAN :
       \E info1 \in NativeInfos, info2 \in NativeInfos, slot \in WorkSlots :
         call' = svd(l, calc_u, calc_vt, a, info1, slot, info2, Fill(Len(a), <<7, 0>>))
    /\ UNCHANGED <<build, tri, lu, pre>>

\* Values of band entries, and the values gttrf writes.
BandVals == {-2, 1}
FactorVals == {0, 5}

TriOf(n, dl, d, du) == [l |-> LayoutF(n, n), dl |-> dl, d |-> d, du |-> du]
NBelow(n) == IF n > 0 THEN n - 1 ELSE 0

\* Tridiagonal matrices with one value along each band.
TriBanded ==
    { TriOf(n, Fill(NBelow(n), x), Fill(n, y), Fill(NBelow(n), z)) :
        n \in 0..MaxN, x \in BandVals, y \in BandVals, z \in BandVals }

LuTridiagonal ==
    /\ call = NoCall
    /\ \E a \in TriBanded : \E info \in NativeInfos : \E f \in FactorVals :
         LET r == lu_tridiagonal(a, info, f) IN
         /\ call' = r[1]
         /\ lu' = IF r[2] = NoLU THEN lu ELSE r[2]
         /\ pre' = IF r[2] = NoLU THEN pre ELSE a
    /\ UNCHANGED <<build, tri>>

RcondTridiagonal ==
    /\ call = NoCall
    /\ lu # NoLU
    /\ \E info \in NativeInfos : \E rcond \in {0, 1} :
         call' = rcond_tridiagonal(lu, info, rcond)
    /\ UNCHANGED <<build, tri, lu, pre>>

\* The n x nrhs matrix with entry (i, j) = s * (1 + i * nrhs + j), stored as tag says.
RhsBuffer(tag, n, nrhs, s) ==
    [k \in 1..(n * nrhs) |->
       LET q == k - 1
           i == IF tag = "C" THEN q \div nrhs ELSE q % n
           j == IF tag = "C" THEN q % nrhs ELSE q \div n
       IN  s * (1 + i * nrhs + j)]

SolveTridiagonal ==
    /\ call = NoCall
    /\ lu # NoLU
    /\ \E tag \in {"C", "F"} : \E nrhs \in 1..MaxRhs : \E s \in {-1, 1} :
       \E t \in Transposes : \E info \in NativeInfos : \E k \in {1, 2} :
         LET n == size(lu.a.l)[1] IN
         call' = solve_tridiagonal(lu, LayoutOf(tag, n, nrhs), t,
                                   RhsBuffer(tag, n, nrhs, s), info, k)
    /\ UNCHANGED <<build, tri, lu, pre>>

\* Indices handed to index and index_mut: the ends of i32, -1, and 0..MaxN.
Idx32 == {MinI32, -1, MaxI32} \cup 0..MaxN

IndexRead ==
    /\ call = NoCall
    /\ \E row \in Idx32, col \in Idx32 :
         LET p == index(tri, row, col, build) IN
         call' = [NoCall EXCEPT !.fn = "index", !.row = row, !.col = col, !.place = p,
                                !.v = IF p = NoPlace THEN 0 ELSE Deref(tri, p),
                                !.result = IF p = NoPlace THEN Panic("index") ELSE Ok(<<>>)]
    /\ UNCHANGED <<build, tri, lu, pre>>

IndexWrite ==
    /\ call = NoCall
    /\ \E row \in Idx32, col \in Idx32 : \E v \in {7} :
         LET p == index(tri, row, col, build) IN
         /\ call' = [NoCall EXCEPT !.fn = "index_mut", !.row = row, !.col = col,
                                   !.place = p, !.v = v, !.self0 = tri,
                                   !.result = IF p = NoPlace THEN Panic("index") ELSE Ok(<<>>)]
         /\ tri' = IF p = NoPlace THEN tri ELSE Assign(tri, p, v)
    /\ UNCHANGED <<build, lu, pre>>

\* Tridiagonal matrices whose entries are pairwise distinct.
TriDistinct ==
    { TriOf(n, [i \in 1..NBelow(n) |-> 10 + i], [i \in 1..n |-> 20 + i],
               [i \in 1..NBelow(n) |-> 30 + i]) : n \in 0..MaxN }

InitCommon ==
    /\ build \in {"debug", "release"}
    /\ lu = NoLU
    /\ pre = NoLU
    /\ call = NoCall

Init ==
    /\ InitCommon
    /\ tri = TriOf(0, <<>>, <<>>, <<>>)

Next ==
    \/ Lu \/ Inv \/ Solve \/ Svd
    \/ LuTridiagonal \/ RcondTridiagonal \/ SolveTridiagonal
    \/ Return

Spec == Init /\ [][Next]_vars

\* Values of band entries for the norm alone.
NormVals == {-2, 0, 1}

OpnormOne ==
    /\ call = NoCall
    /\ call' = [NoCall EXCEPT !.fn = "opnorm_one", !.self0 = tri, !.v = opnorm_one(tri)]
    /\ UNCHANGED <<build, tri, lu, pre>>

\* The one-norm alone, on every tridiagonal matrix of order 0..MaxN over
\* NormVals that keeps the length invariant.
InitNorm ==
    /\ InitCommon
    /\ \E n \in 0..MaxN :
       \E dl \in [1..NBelow(n) -> NormVals], d \in [1..n -> NormVals],
          du \in [1..NBelow(n) -> NormVals] :
         tri = TriOf(n, dl, d, du)

NextNorm == OpnormOne \/ Return

SpecNorm == InitNorm /\ [][NextNorm]_vars

\* Element access alone, on a matrix of any order up to MaxN.
InitIndex ==
    /\ InitCommon
    /\ tri \in TriDistinct

NextIndex == IndexRead \/ IndexWrite \/ Return

SpecIndex == InitIndex /\ [][NextIndex]_vars

(***************************************************************************)
(* Properties                                                              *)
(***************************************************************************)
Rows(l) == size(l)[1]
Cols(l) == size(l)[2]
NativeAt(log) == { i \in 1..Len(log) : log[i].ev = "native" }
ZeroDim(l) == Rows(l) = 0 \/ Cols(l) = 0

\* C1.  Dense solve hands getrs: for a row-major matrix, Transpose when No was
\* asked, No when Transpose was asked, and No when ConjugateTranspose was asked,
\* in which case the whole right-hand side is conjugated exactly once before
\* the native call and exactly once after it; for a column-major matrix the
\* mode asked for, and the right-hand side is never conjugated.
C1_Mode(tag, t) ==
    IF tag = "F" THEN t
    ELSE IF t = "No" THEN "Transpose" ELSE "No"

C1_Conj(tag, t) == tag = "C" /\ t = "Hermite"

C1_SolveTranslation ==
    call.fn = "solve" =>
        LET cj == C1_Conj(call.l.tag, call.t)
            nat == CHOOSE i \in NativeAt(call.log) : TRUE
            conjs == { i \in 1..Len(call.log) : call.log[i] = EvWrite("conj_b") }
        IN  /\ Cardinality(NativeAt(call.log)) = 1
            /\ call.ntrans = C1_Mode(call.l.tag, call.t)
            /\ Cardinality({ i \in conjs : i < nat }) = (IF cj /\ call.b_in # <<>> THEN 1 ELSE 0)
            /\ Cardinality({ i \in conjs : i > nat }) = (IF cj /\ call.b_in # <<>> THEN 1 ELSE 0)
            /\ call.nb = (IF cj THEN [i \in 1..Len(call.b_in) |->
                                        <<call.b_in[i][1], -call.b_in[i][2]>>]
                          ELSE call.b_in)
            /\ call.b = (IF cj THEN [i \in 1..Len(call.nout) |->
                                       <<call.nout[i][1], -call.nout[i][2]>>]
                         ELSE call.nout)

\* A row-major ConjugateTranspose solve of order MaxDim that succeeded and whose
\* solution has a non-real entry.
C1_Witness ==
    /\ call.fn = "solve" /\ call.l.tag = "C" /\ call.t = "Hermite"
    /\ Len(call.b_in) = MaxDim /\ call.result.ok
    /\ call.b # call.nout /\ call.nb # call.b_in

\* C2.  A successful svd of a rows x cols matrix, in either storage order and
\* for all four flag combinations, returns u iff calc_u with rows*rows
\* elements, vt iff calc_vt with cols*cols elements, and min(rows, cols)
\* singular values; for row-major input gesvd is handed the flags swapped and
\* its two result buffers are swapped back (u is what gesvd wrote as VT).
C2_SvdShapes ==
    (call.fn = "svd" /\ call.result.ok) =>
        LET rows == Rows(call.l)
            cols == Cols(call.l)
            out == call.result.val
        IN  /\ out.u.some = call.calc_u
            /\ out.u.some => Len(out.u.v) = rows * rows
            /\ out.vt.some = call.calc_vt
            /\ out.vt.some => Len(out.vt.v) = cols * cols
            /\ Len(out.s) = (IF rows < cols THEN rows ELSE cols)
            /\ call.l.tag = "C" =>
                 /\ call.nju = (IF call.calc_vt THEN "All" ELSE "None")
                 /\ call.njvt = (IF call.calc_u THEN "All" ELSE "None")
                 /\ \A i \in 1..Len(out.u.v) : out.u.v[i] = <<9, 0>>
                 /\ \A i \in 1..Len(out.vt.v) : out.vt.v[i] = <<8, 0>>

\* A successful row-major svd of a 1 x MaxDim matrix asking for u only.
C2_Witness ==
    /\ call.fn = "svd" /\ call.result.ok /\ call.l.tag = "C"
    /\ Rows(call.l) = 1 /\ Cols(call.l) = MaxDim
    /\ call.calc_u /\ ~call.calc_vt
    /\ Len(call.result.val.u.v) = 1

\* C3.  For a layout with zero rows or zero columns (and a buffer of the
\* rows*cols = 0 elements it describes), lu returns success with an empty
\* pivot, inv returns success leaving the buffer unchanged, and neither
\* issues a native call.
C3_EmptyMatrix ==
    (call.fn \in {"lu", "inv"} /\ ZeroDim(call.l) /\ Len(call.a_in) = 0) =>
        /\ call.result.ok
        /\ call.result.val = <<>>
        /\ call.a = call.a_in
        /\ NativeAt(call.log) = {}

\* C4.  Tridiagonal element access at (row, col), read or write: with both
\* indices in 0..n-1, row = col addresses d[row], row = col + 1 addresses
\* dl[col] and col = row + 1 addresses du[row]; every other pair of i32
\* indices panics and yields no element.  After a write through (row, col) a
\* read of (row, col) returns the value written, and every other element of
\* dl, d and du is what it was.
C4_InRange(n, i) == 0 <= i /\ i < n

C4_Expected(n, row, col) ==
    IF ~(C4_InRange(n, row) /\ C4_InRange(n, col)) THEN NoPlace
    ELSE IF row = col THEN [band |-> "d", i |-> row]
    ELSE IF row = col + 1 THEN [band |-> "dl", i |-> col]
    ELSE IF col = row + 1 THEN [band |-> "du", i |-> row]
    ELSE NoPlace

C4_Band(t, band) == IF band = "d" THEN t.d ELSE IF band = "dl" THEN t.dl ELSE t.du

C4_ElementAccess ==
    /\ call.fn \in {"index", "index_mut"} =>
         /\ call.place = C4_Expected(Rows(tri.l), call.row, call.col)
         /\ (call.place = NoPlace) = (call.result.err = "panic")
    /\ (call.fn = "index" /\ call.place # NoPlace) =>
         call.v = C4_Band(tri, call.place.band)[call.place.i + 1]
    /\ call.fn = "index_mut" =>
         /\ tri.l = call.self0.l
         /\ \A band \in {"dl", "d", "du"} :
              /\ Len(C4_Band(tri, band)) = Len(C4_Band(call.self0, band))
              /\ \A i \in 1..Len(C4_Band(tri, band)) :
                   IF call.place = [band |-> band, i |-> i - 1]
                   THEN C4_Band(tri, band)[i] = call.v
                   ELSE C4_Band(tri, band)[i] = C4_Band(call.self0, band)[i]
         /\ call.place # NoPlace =>
              LET p == index(tri, call.row, call.col, build)
              IN  p # NoPlace /\ Deref(tri, p) = call.v

\* A write to the sub-diagonal element (MaxN - 1, MaxN - 2) of a matrix of order MaxN.
C4_Witness ==
    /\ call.fn = "index_mut" /\ Rows(tri.l) = MaxN
    /\ call.row = MaxN - 1 /\ call.col = MaxN - 2
    /\ call.place = [band |-> "dl", i |-> MaxN - 2]
    /\ tri.dl[MaxN - 1] = call.v /\ call.self0.dl[MaxN - 1] # call.v

\* The one-norm as the maximum column sum: column j counts |d[j]|, |dl[j]| when
\* j < n - 1 and |du[j - 1]| when j > 0; zero for n = 0.
ColSum(t, j) ==
    Abs(At(t.d, j))
    + (IF j < Len(t.d) - 1 THEN Abs(At(t.dl, j)) ELSE 0)
    + (IF j > 0 THEN Abs(At(t.du, j - 1)) ELSE 0)

OneNorm(t) ==
    IF Len(t.d) = 0 THEN 0
    ELSE LET sums == { ColSum(t, j) : j \in 0..(Len(t.d) - 1) }
         IN  CHOOSE x \in sums : \A y \in sums : y <= x

\* C5.  The norm stored in a factorized tridiagonal result is the one-norm of
\* the bands as they were handed to lu_tridiagonal, taken before gttrf runs,
\* and every rcond_tridiagonal call on that result hands gtcon this stored
\* value, whatever rcond and solve calls came in between.
C5_StoredNorm ==
    /\ lu # NoLU => lu.a_opnorm_one = OneNorm(pre)
    /\ (call.fn = "lu_tridiagonal" /\ call.result.err # "panic") =>
         \E i \in 1..Len(call.log) :
            /\ call.log[i] = EvNorm(OneNorm(call.self0))
            /\ \A j \in NativeAt(call.log) : i < j
    /\ call.fn = "rcond_tridiagonal" => call.nanorm = OneNorm(pre)

\* An rcond call on a factorization whose overwritten bands have another norm.
C5_Witness ==
    /\ call.fn = "rcond_tridiagonal" /\ call.result.ok
    /\ lu # NoLU /\ Rows(lu.a.l) = MaxN
    /\ OneNorm(lu.a) # OneNorm(pre)
    /\ call.nanorm = OneNorm(pre)

\* The matrix a buffer encodes: entry (i, j) of the n x nrhs matrix stored as tag says.
Entry(tag, n, nrhs, buf, i, j) ==
    IF tag = "C" THEN At(buf, i * nrhs + j) ELSE At(buf, j * n + i)

\* C6.  For the same factorization, mode, status and right-hand-side matrix B,
\* solve_tridiagonal on B stored row-major leaves in the caller's buffer the
\* row-major encoding of the matrix the call on B stored column-major leaves
\* in column-major encoding: gttrs is handed a column-major scratch copy of B
\* with the mode unchanged, and the scratch is transposed back afterwards.
C6_LayoutIndependent ==
    (call.fn = "solve_tridiagonal" /\ call.l.tag = "C" /\ call.result.ok) =>
        LET n == Rows(call.l)
            nrhs == Cols(call.l)
            fb == [k \in 1..(n * nrhs) |->
                     Entry("C", n, nrhs, call.b_in, (k - 1) % n, (k - 1) \div n)]
            other == solve_tridiagonal(lu, LayoutOf("F", n, nrhs), call.t, fb, 0,
                                       call.oracle)
        IN  /\ other.result.ok
            /\ Len(call.b) = n * nrhs
            /\ \A i \in 0..(n - 1) : \A j \in 0..(nrhs - 1) :
                 Entry("C", n, nrhs, call.b, i, j) = Entry("F", n, nrhs, other.b, i, j)
            /\ call.ntrans = call.t
            /\ call.nb = fb
            /\ call.nldb = n /\ call.nnrhs = nrhs
            /\ \A i \in 0..(n - 1) : \A j \in 0..(nrhs - 1) :
                 Entry("C", n, nrhs, call.b, i, j) = Entry("F", n, nrhs, call.nout, i, j)

\* A successful row-major solve with MaxRhs right-hand sides of order MaxN whose
\* row-major result differs from the buffer gttrs left.
C6_Witness ==
    /\ call.fn = "solve_tridiagonal" /\ call.l.tag = "C" /\ call.result.ok
    /\ Rows(call.l) = MaxN /\ Cols(call.l) = MaxRhs
    /\ call.b # call.nout /\ call.b # call.b_in

\* C7.  For every tridiagonal matrix of order n >= 0 that keeps the length
\* invariant, opnorm_one is the maximum over the columns j of |d[j]|, plus
\* |dl[j]| when j < n - 1, plus |du[j - 1]| when j > 0, and zero for n = 0.
C7_OneNorm ==
    call.fn = "opnorm_one" => call.v = OneNorm(tri)

\* A matrix of order MaxN whose largest column is the last one, and whose
\* last sub-diagonal and super-diagonal entries are not zero.
C7_Witness ==
    /\ call.fn = "opnorm_one" /\ Len(tri.d) = MaxN
    /\ call.v = ColSum(tri, MaxN - 1)
    /\ \A j \in 0..(MaxN - 2) : ColSum(tri, j) < call.v
    /\ tri.dl[MaxN - 1] # 0 /\ tri.du[MaxN - 1] # 0

EntryPoints ==
    {"lu", "inv", "solve", "svd", "lu_tridiagonal", "rcond_tridiagonal", "solve_tridiagonal"}

\* A status other than zero ends the invocation with that status as the error,
\* and success is returned only when every native call reported zero.
StatusPropagated ==
    /\ \A i \in 1..Len(call.log) :
         (call.log[i].ev = "check" /\ call.log[i].info # 0) =>
            /\ i + 1 = Len(call.log)
            /\ call.log[i + 1].ev = "return"
            /\ ~call.result.ok
            /\ call.result.err \in {"LapackComputationalFailure", "LapackInvalidValue"}
            /\ call.result.code = call.log[i].info
    /\ call.result.ok => \A i \in NativeAt(call.log) : call.log[i].info = 0

\* C8 as claimed.  In every entry point the status of a native call is checked
\* right after the call: nothing is written to a caller buffer and no other
\* native call is made between the call and the check of its status; a status
\* other than zero is returned as an error, and success is returned only if
\* every native call reported zero.
C8_CheckedImmediately ==
    call.fn \in EntryPoints =>
        /\ \A i \in NativeAt(call.log) :
             i < Len(call.log) /\ call.log[i + 1] = EvCheck(call.log[i].info)
        /\ StatusPropagated

\* C8, amended.  In every entry point the status of a native call is checked
\* before any other native call is made and, except in solve on a row-major
\* matrix with ConjugateTranspose, where the right-hand side is first
\* conjugated back, before anything is written to a caller buffer; a status
\* other than zero is returned as an error, and success is returned only if
\* every native call reported zero.
C8_CheckedBeforeNextCall ==
    call.fn \in EntryPoints =>
        /\ \A i \in NativeAt(call.log) :
             \E j \in (i + 1)..Len(call.log) :
                /\ call.log[j] = EvCheck(call.log[i].info)
                /\ \A k \in (i + 1)..(j - 1) :
                     /\ call.log[k] = EvWrite("conj_b")
                     /\ j = i + 2
                     /\ call.fn = "solve" /\ call.l.tag = "C" /\ call.t = "Hermite"
        /\ StatusPropagated

\* A row-major ConjugateTranspose solve whose native call failed: the
\* right-hand side was conjugated back before the status was looked at.
C8_Witness ==
    /\ call.fn = "solve" /\ call.l.tag = "C" /\ call.t = "Hermite"
    /\ Len(call.b_in) > 0
    /\ \E i \in NativeAt(call.log) :
         /\ call.log[i].info = 1
         /\ call.log[i + 1] = EvWrite("conj_b")
         /\ call.log[i + 2] = EvCheck(1)
    /\ call.result = Err("LapackComputationalFailure", 1)

\* C9.  svd on a matrix with zero rows or zero columns (and the empty buffer
\* that layout describes), in either storage order and for all flags, makes
\* no native call, neither the size query nor the real one, and returns
\* success with empty outputs.
C9_SvdEmpty ==
    (call.fn = "svd" /\ ZeroDim(call.l) /\ Len(call.a_in) = 0) =>
        /\ NativeAt(call.log) = {}
        /\ call.result.ok
        /\ call.result.val.s = <<>>
        /\ call.result.val.u.v = <<>>
        /\ call.result.val.vt.v = <<>>

\* C10.  lu, inv, solve and svd make a native call only when the matrix buffer
\* has rows * cols elements: with a buffer of any other length no native call
\* is made.
C10_LengthChecked ==
    call.fn \in {"lu", "inv", "solve", "svd"} =>
        (NativeAt(call.log) # {} => Len(call.a_in) = Rows(call.l) * Cols(call.l))

\* C11.  inv and svd call their native routine in two phases: first a size
\* query with workspace size -1 and a one-element slot for the answer, then
\* the real call with a workspace of exactly the element count read back from
\* the slot and that same count as the workspace size.  The real call is made
\* only if the query reported zero, no workspace is allocated before the query
\* has returned, and an invocation makes at most one query and one real call.
C11_WorkAt(log) == { i \in 1..Len(log) : log[i].ev = "alloc" /\ log[i].what = "work" }

C11_TwoPhase ==
    call.fn \in {"inv", "svd"} =>
        LET log == call.log
            nat == NativeAt(log)
            queries == { i \in nat : log[i].arg = -1 }
            reals == nat \ queries
            routine == IF call.fn = "inv" THEN "getri" ELSE "gesvd"
        IN  /\ \A i \in nat : log[i].what = routine
            /\ Cardinality(queries) <= 1 /\ Cardinality(reals) <= 1
            /\ \A i \in queries :
                 /\ i > 1 /\ log[i - 1] = EvAlloc("work_size", 1)
                 /\ \A w \in C11_WorkAt(log) : w > i
            /\ \A r \in reals :
                 /\ \E i \in queries : i < r /\ log[i].info = 0
                 /\ call.slot[2] = 0
                 /\ log[r].arg = call.slot[1]
                 /\ log[r - 1] = EvAlloc("work", call.slot[1])
                 /\ C11_WorkAt(log) = {r - 1}
            /\ reals = {} => C11_WorkAt(log) = {}

\* A successful svd whose query asked for MaxWork elements: both phases ran.
C11_Witness ==
    /\ call.fn = "svd" /\ call.result.ok
    /\ call.slot = <<MaxWork, 0>>
    /\ Cardinality(NativeAt(call.log)) = 2
    /\ \E i \in NativeAt(call.log) : call.log[i] = EvNative("gesvd", MaxWork, 0)

\* C12.  For a tridiagonal matrix of order n >= 1, lu_tridiagonal requests a
\* pivot of exactly n entries and a second-super-diagonal array of n - 2
\* entries when n >= 2 and of no entries when n < 2; the count n - 2 is never
\* negative when it is converted to an unsigned size.
C12_Du2Count ==
    call.fn = "lu_tridiagonal" /\ Rows(call.l) >= 1 =>
        LET n == Rows(call.l)
            log == call.log
            du2 == { i \in 1..Len(log) : log[i].ev = "alloc" /\ log[i].what = "du2" }
            ipiv == { i \in 1..Len(log) : log[i].ev = "alloc" /\ log[i].what = "ipiv" }
        IN  /\ call.result.err # "panic"
            /\ \A i \in du2 : log[i].arg >= 0
            /\ \E i \in du2 : log[i].arg = IF n >= 2 THEN n - 2 ELSE 0
            /\ \E i \in ipiv : log[i].arg = n

====
